---- MODULE Spec2Model ----
(***************************************************************************)
(* Model of the FIR analysis orchestrator of ndps_app:                     *)
(*   - app/langgraph/workflow.py : the routing functions and the graph     *)
(*   - app/routes/upload.py      : POST /upload, GET /status/{job_id} and  *)
(*                                 the background run of one job           *)
(*   - app/utils/retry.py        : exponential_backoff_retry               *)
(*   - app/rag/query_all.py      : _load_index and its two caches          *)
(*                                                                         *)
(* Five specifications share the module:                                   *)
(*   Spec      : the jobs of one session (one thread_id) and their runs    *)
(*   SpecRoute : the two routing functions on every selected-section set   *)
(*   SpecRetry : one call of a function wrapped by the retry decorator     *)
(*   SpecOverlap : Spec with uploads accepted while a job is in flight     *)
(*   SpecIndex : threads calling _load_index concurrently                  *)
(*   SpecCalls : the external calls of one node, one of which fails once   *)
(*   SpecLive  : Spec when no node raises, with a fair background thread   *)
(***************************************************************************)
EXTENDS Integers, Sequences, FiniteSets, TLC

VARIABLES
    job_store,      \* routes/config.py job_store: job_id -> job record
    results_store,  \* routes/config.py results_store[workflow_id] of the session
    checkpoint,     \* MemorySaver state of the session's thread_id
    bg,             \* locals of process_workflow_background, per job
    run,            \* the graph.stream() execution of each job
    rq,             \* SpecRoute: one routing question
    retry,          \* SpecRetry: one call of the retry wrapper
    idx,            \* SpecIndex: rag/query_all.py caches and the threads in _load_index
    ext,            \* SpecCalls: the external calls of one node execution
    req,            \* SpecUpload: the POST /upload request being handled
    hc,             \* SpecCases: one execution of the historical_cases node
    sess            \* SpecSession: the browser session, and the stores by workflow_id

vars == <<job_store, results_store, checkpoint, bg, run, rq, retry, idx, ext, req, hc, sess>>

(***************************************************************************)
(* Bounds of the model.                                                    *)
(***************************************************************************)
MaxJobs == 2        \* jobs submitted to the session
MaxSel == 2         \* sections named by one POST /upload
MaxRetriesArg == 5  \* largest max_retries argument tried (the decorator's default)
MaxFirstOk == 7     \* the wrapped function first returns at call 1..MaxFirstOk, or never
MaxLoaders == 3     \* threads that call _load_index
MaxSessions == 3    \* session ids uuid4() hands out
MaxDocs == 8        \* documents the Indian Kanoon search can find for one query

JobIds == 1..MaxJobs

Range(s) == {s[i] : i \in DOMAIN s}

Min(a, b) == IF a <= b THEN a ELSE b

(***************************************************************************)
(* Names.                                                                  *)
(***************************************************************************)
END == "__end__"

\* the section names a client selects (the strings tested in workflow.py)
AllSections ==
    {"ndps", "bns", "bnss", "bsa", "timeline", "historical_cases",
     "investigation_plan", "evidence", "dos_and_donts", "weaknesses",
     "defence_rebuttal", "court_summary", "chargesheet"}

\* the nodes added to workflow_graph
Nodes ==
    {"read_pdf", "extract_fir_fact", "ndps_legal_mapping", "bns_legal_mapping",
     "bnss_legal_mapping", "bsa_legal_mapping", "investigation_plan",
     "investigation_and_legal_timeline", "historical_cases",
     "generate_evidence_checklist", "generate_dos_and_donts",
     "generate_potential_prosecution_weaknesses",
     "generate_defence_perspective_rebuttal",
     "generate_summary_for_the_court", "generate_chargesheet"}

\* workflow.py COMPONENTS_NEEDING_HISTORICAL_CASES (node names)
COMPONENTS_NEEDING_HISTORICAL_CASES ==
    {"generate_evidence_checklist", "generate_dos_and_donts",
     "generate_potential_prosecution_weaknesses",
     "generate_defence_perspective_rebuttal",
     "generate_summary_for_the_court", "generate_chargesheet",
     "investigation_plan"}

\* route_all_sections' local list components_needing_historical_cases (section names)
components_needing_historical_cases ==
    {"investigation_plan", "evidence", "dos_and_donts", "weaknesses",
     "defence_rebuttal", "court_summary", "chargesheet"}

(***************************************************************************)
(* The routing functions, as lists built by the code's sequence of ifs.    *)
(***************************************************************************)
Opt(cond, name) == IF cond THEN <<name>> ELSE <<>>

\* the seven "if <section> in selected_sections: routes.append(<node>)" of both routers
DependentRoutes(selected_sections) ==
       Opt("investigation_plan" \in selected_sections, "investigation_plan")
    \o Opt("evidence" \in selected_sections, "generate_evidence_checklist")
    \o Opt("dos_and_donts" \in selected_sections, "generate_dos_and_donts")
    \o Opt("weaknesses" \in selected_sections, "generate_potential_prosecution_weaknesses")
    \o Opt("defence_rebuttal" \in selected_sections, "generate_defence_perspective_rebuttal")
    \o Opt("court_summary" \in selected_sections, "generate_summary_for_the_court")
    \o Opt("chargesheet" \in selected_sections, "generate_chargesheet")

IndependentRoutes(selected_sections) ==
       Opt("ndps" \in selected_sections, "ndps_legal_mapping")
    \o Opt("bns" \in selected_sections, "bns_legal_mapping")
    \o Opt("bnss" \in selected_sections, "bnss_legal_mapping")
    \o Opt("bsa" \in selected_sections, "bsa_legal_mapping")
    \o Opt("timeline" \in selected_sections, "investigation_and_legal_timeline")

\* mutant: the dependent components are routed together with historical_cases
route_all_sections_no_guard(selected_sections) ==
    LET needs_historical_cases ==
            \E section \in components_needing_historical_cases :
                section \in selected_sections
        historical_cases_selected == "historical_cases" \in selected_sections
        routes ==
               Opt(needs_historical_cases \/ historical_cases_selected, "historical_cases")
            \o IndependentRoutes(selected_sections)
            \o DependentRoutes(selected_sections)
    IN  IF routes # <<>> THEN routes ELSE <<END>>

\* mutant: the independent components are tested by an if/elif chain, so
\* only the first selected one is routed
route_all_sections_elif(selected_sections) ==
    LET needs_historical_cases ==
            \E section \in components_needing_historical_cases :
                section \in selected_sections
        historical_cases_selected == "historical_cases" \in selected_sections
        independent == IndependentRoutes(selected_sections)
        routes ==
               Opt(needs_historical_cases \/ historical_cases_selected, "historical_cases")
            \o (IF independent = <<>> THEN <<>> ELSE <<Head(independent)>>)
            \o (IF ~needs_historical_cases
                THEN DependentRoutes(selected_sections) ELSE <<>>)
    IN  IF routes # <<>> THEN routes ELSE <<END>>

route_all_sections(selected_sections) ==
    LET needs_historical_cases ==
            \E section \in components_needing_historical_cases :
                section \in selected_sections
        historical_cases_selected == "historical_cases" \in selected_sections
        routes ==
               Opt(needs_historical_cases \/ historical_cases_selected, "historical_cases")
            \o IndependentRoutes(selected_sections)
            \o (IF ~needs_historical_cases
                THEN DependentRoutes(selected_sections) ELSE <<>>)
    IN  IF routes # <<>> THEN routes ELSE <<END>>

\* mutant: the first dependent component is left out of the second wave
route_from_historical_cases_drop_first(selected_sections) ==
    LET routes == DependentRoutes(selected_sections)
    IN  IF routes # <<>> /\ Tail(routes) # <<>> THEN Tail(routes) ELSE <<END>>

\* mutant: historical_cases only leads to END
route_from_historical_cases_end_only(selected_sections) == <<END>>

route_from_historical_cases(selected_sections) ==
    LET routes == DependentRoutes(selected_sections)
    IN  IF routes # <<>> THEN routes ELSE <<END>>

(***************************************************************************)
(* The compiled graph: the nodes a finished node triggers for the next     *)
(* superstep (its plain edges and its conditional edges).                  *)
(***************************************************************************)
\* mutant: the second conditional edge is attached to extract_fir_fact too
Successors_eager(node, selected_sections) ==
    CASE node = "read_pdf" -> {"extract_fir_fact"}
      [] node = "extract_fir_fact" ->
            Range(route_all_sections(selected_sections))
                \cup Range(route_from_historical_cases(selected_sections))
      [] node = "historical_cases" ->
            Range(route_from_historical_cases(selected_sections)) \cup {END}
      [] OTHER -> {END}

Successors(node, selected_sections) ==
    CASE node = "read_pdf" -> {"extract_fir_fact"}
      [] node = "extract_fir_fact" -> Range(route_all_sections(selected_sections))
      [] node = "historical_cases" ->
            Range(route_from_historical_cases(selected_sections)) \cup {END}
      [] OTHER -> {END}

(***************************************************************************)
(* Shared state of a session.  A state value is modelled by the id of the  *)
(* job whose run wrote it (0: the field is absent); vals[n] stands for the *)
(* field(s) node n returns, vals["pdf_bytes"] for the uploaded document.   *)
(* A negative value -j is a falsy value written by job j: the empty text   *)
(* read_pdf returns for a PDF without a text layer, the empty list         *)
(* historical_cases returns when its searches fail or find nothing.        *)
(***************************************************************************)
Fields == Nodes \cup {"pdf_bytes"}

EmptyVals == [f \in Fields |-> 0]

\* the sections one POST /upload of the model may name
RequestSections == {"ndps", "historical_cases", "evidence", "chargesheet"}

SectionChoices ==
    {S \in SUBSET RequestSections : S # {} /\ Cardinality(S) <= MaxSel}

WorkflowId == "S1"

\* the nodes whose returned value may be falsy ("" or [])
CanBeFalsy == {"read_pdf", "historical_cases"}

\* results_store without an entry for the session's workflow_id
NoResult == [vals |-> EmptyVals, sections |-> {}, workflow_id |-> "None"]

NoTasks == [n \in Nodes |-> "off"]

IdleBg ==
    [pc |-> "none", sections_list |-> {}, is_new_workflow |-> FALSE,
     file_bytes |-> FALSE, graph_state |-> [vals |-> EmptyVals, sections |-> {}],
     total_nodes |-> 0, completed_nodes |-> 0, raised_by |-> "None"]

IdleRun ==
    [vals |-> EmptyVals, sections |-> {}, tasks |-> NoTasks,
     writes |-> EmptyVals, calls |-> [n \in Nodes |-> 0], finished |-> {}, hc_seen |-> {},
     assigned |-> {}]

IdleRq == [pc |-> "off", sections |-> {}, waves |-> <<>>]

IdleExt ==
    [pc |-> "off", node |-> "None", fail_at |-> 0, i |-> 0, failed_once |-> FALSE,
     retried |-> FALSE]

\* no request: a request without file part and without sections field
NoFile == [present |-> FALSE, filename |-> <<>>, readable |-> FALSE]

NoForm == [kind |-> "none", list |-> {}]

\* with_file[j]: the request that created job j carried a readable .pdf file;
\* jobs_before: the number of job_store entries when the request arrived
IdleReq ==
    [pc |-> "idle", sections |-> NoForm, file |-> NoFile, sections_list |-> {},
     is_new_workflow |-> FALSE, file_bytes |-> FALSE, job_id |-> 0,
     response |-> "None", jobs_before |-> 0, with_file |-> [j \in JobIds |-> FALSE]]

\* queries: fallback_queries[:3]; searches: the number of cases each fallback
\* search added (-1: it raised); main_cases: the length of the list after the
\* main search
IdleHc ==
    [pc |-> "off", fir_substance |-> FALSE, historical_cases_list |-> <<>>,
     processed_case_ids |-> {}, queries |-> <<>>, i |-> 0, searches |-> <<>>,
     main_cases |-> 0, raised_by |-> "None", returned |-> <<>>]

SessionIds == 1..MaxSessions

\* the keys of a thread's state in SpecSession
SessionKeys == {"pdf_bytes", "ndps_sections_mapped", "evidence_checklist"}

NoThread == [k \in SessionKeys |-> 0]

NoTask == [workflow_id |-> 0, is_new_workflow |-> FALSE, file_bytes |-> FALSE,
           sections_list |-> {}]

\* session_id: request.session["session_id"] of the browser (0: no such key);
\* uuids: the ids uuid4() has returned; threads[w], results[w]: the
\* checkpoint of thread_id w and results_store[w], each key with the
\* workflow_id of the run that produced its value (0: absent); task: the
\* background task added by the last accepted upload, until it runs;
\* last, workflow_id, response, is_new_workflow, file: the last request, the
\* session id it was given, its answer and, for an upload, its
\* is_new_workflow and whether it carried a file; previous: the session_id
\* before the last login; uploads: the uploads since the last login (1, or
\* 2 for more)
IdleSess ==
    [session_id |-> 0, uuids |-> <<>>,
     threads |-> [w \in SessionIds |-> NoThread],
     results |-> [w \in SessionIds |-> NoThread],
     task |-> NoTask, last |-> "None", workflow_id |-> 0, response |-> "None",
     is_new_workflow |-> FALSE, file |-> FALSE,
     logged_in |-> FALSE, previous |-> 0, uploads |-> 0]

Loaders == 1..MaxLoaders

\* act codes the loader threads of the model ask for (two of the six configs)
ActCodes == {"bnss", "forensic"}

IdleLoader == [pc |-> "idle", act_code |-> "None", outcome |-> "None"]

\* query_all.py line 12-13: both caches start empty; reads counts the times
\* the files of an act code were read
IdleIdx ==
    [index_cache |-> {}, chunks_cache |-> {}, reads |-> [a \in ActCodes |-> 0],
     th |-> [t \in Loaders |-> IdleLoader]]

IdleRetry ==
    [pc |-> "off", max_retries |-> 0, max_wait |-> 0, first_ok |-> 0,
     attempt |-> 0, calls |-> 0, waits |-> <<>>, sleeps |-> <<>>, result |-> "None",
     raised |-> "None"]

\* mutant: the clamp to 95 is missing
ProgressOf_unclamped(completed_nodes, total_nodes) ==
    10 + (completed_nodes * 85) \div (IF total_nodes >= 1 THEN total_nodes ELSE 1)

\* mutant: round up instead of int()
ProgressOf_ceil(completed_nodes, total_nodes) ==
    LET t == IF total_nodes >= 1 THEN total_nodes ELSE 1
    IN  Min(10 + (completed_nodes * 85 + t - 1) \div t, 95)

\* upload.py line 99: min(10 + int((completed_nodes / max(total_nodes, 1)) * 85), 95).
\* The float product truncates to the exact quotient whenever completed <= total,
\* and beyond that the result is clamped to 95 either way.
ProgressOf(completed_nodes, total_nodes) ==
    Min(10 + (completed_nodes * 85) \div (IF total_nodes >= 1 THEN total_nodes ELSE 1), 95)

InFlight(j) == j \in DOMAIN job_store /\ bg[j].pc \notin {"done", "failed"}

(***************************************************************************)
\* mutant: the new request's sections replace the prior ones
MergeSections_new_only(prior_sections, sections_list) == sections_list

\* lines 62-63: list(set(prior_sections + sections_list))
MergeSections(prior_sections, sections_list) == prior_sections \cup sections_list

(***************************************************************************)
(* POST /upload (upload_pdf), for an accepted request: a non-empty section *)
(* list and, for a new workflow, a .pdf file.  The model submits a job     *)
(* when no earlier job of the session is still in flight; upload_pdf       *)
(* itself has no such test (UploadOverlapping below).                      *)
(***************************************************************************)
Submit(j, sections_list, file) ==
    /\ j \notin DOMAIN job_store
    /\ j = Cardinality(DOMAIN job_store) + 1
    /\ sections_list # {}
    /\ LET is_new_workflow == ~checkpoint.exists
       IN  /\ is_new_workflow => file
           /\ bg' = [bg EXCEPT ![j] =
                        [IdleBg EXCEPT !.pc = "queued",
                                       !.sections_list = sections_list,
                                       !.is_new_workflow = is_new_workflow,
                                       !.file_bytes = is_new_workflow /\ file]]
    /\ job_store' = job_store @@
            (j :> [status |-> "processing", workflow_id |-> "None",
                   progress |-> 0, error |-> "None"])
    /\ UNCHANGED <<results_store, checkpoint, run, rq, retry, idx, ext, req, hc, sess>>

Upload(j, sections_list, file) ==
    /\ \A k \in DOMAIN job_store : ~InFlight(k)
    /\ Submit(j, sections_list, file)

\* mutant: the handler also moves the progress to 100
FailJob_progress_100(j, message) ==
    /\ job_store' = [job_store EXCEPT ![j].status = "failed", ![j].error = message,
                                      ![j].progress = 100]

\* the except handler of process_workflow_background (lines 136-143)
FailJob(j, message) ==
    /\ job_store' = [job_store EXCEPT ![j].status = "failed", ![j].error = message]

\* lines 39-41
BgBegin(j) ==
    /\ j \in DOMAIN job_store
    /\ bg[j].pc = "queued"
    /\ job_store' = [job_store EXCEPT ![j].status = "processing", ![j].progress = 5]
    /\ bg' = [bg EXCEPT ![j].pc = "setup"]
    /\ UNCHANGED <<results_store, checkpoint, run, rq, retry, idx, ext, req, hc, sess>>

\* lines 43-83: load the prior state, merge the sections, validate, progress 10
BgSetup(j) ==
    /\ j \in DOMAIN job_store
    /\ bg[j].pc = "setup"
    /\ LET b == bg[j]
           loaded == IF ~b.is_new_workflow /\ checkpoint.exists
                     THEN [vals |-> checkpoint.vals, sections |-> checkpoint.sections]
                     ELSE [vals |-> EmptyVals, sections |-> {}]
           graph_state ==
               IF b.is_new_workflow
               THEN [vals |-> IF b.file_bytes
                              THEN [loaded.vals EXCEPT !["pdf_bytes"] = j]
                              ELSE loaded.vals,
                     sections |-> b.sections_list]
               ELSE [vals |-> loaded.vals,
                     sections |-> MergeSections(loaded.sections, b.sections_list)]
       IN  IF graph_state.sections = {}
           THEN /\ FailJob(j, "No sections selected for processing")
                /\ bg' = [bg EXCEPT ![j] = [IdleBg EXCEPT !.pc = "failed"]]
           ELSE /\ job_store' = [job_store EXCEPT ![j].progress = 10]
                /\ bg' = [bg EXCEPT ![j].pc = "stream_start",
                                    ![j].graph_state = graph_state,
                                    ![j].sections_list = graph_state.sections,
                                    ![j].total_nodes = Cardinality(graph_state.sections) + 2,
                                    ![j].completed_nodes = 0]
    /\ UNCHANGED <<results_store, checkpoint, run, rq, retry, idx, ext, req, hc, sess>>

(***************************************************************************)
(* graph.stream(graph_state, config) (line 92).  The compiled graph runs   *)
(* in supersteps: the input is written to the thread's channels and a      *)
(* checkpoint is saved, then every node of a superstep runs concurrently   *)
(* on the state as of the start of the superstep; the nodes' returned      *)
(* updates are applied and checkpointed when all of them have finished,    *)
(* and the nodes their edges lead to form the next superstep.              *)
(***************************************************************************)
StreamStart(j) ==
    /\ j \in DOMAIN job_store
    /\ bg[j].pc = "stream_start"
    /\ LET g == bg[j].graph_state
           \* channels of the thread, overwritten by the keys of the input
           vals == [f \in Fields |-> IF g.vals[f] # 0 THEN g.vals[f] ELSE checkpoint.vals[f]]
       IN  /\ run' = [run EXCEPT ![j] =
                        [IdleRun EXCEPT !.vals = vals, !.sections = g.sections,
                                        !.tasks = [NoTasks EXCEPT !["read_pdf"] = "pending"]]]
           /\ checkpoint' = [exists |-> TRUE, vals |-> vals, sections |-> g.sections]
    /\ bg' = [bg EXCEPT ![j].pc = "stream"]
    /\ UNCHANGED <<job_store, results_store, rq, retry, idx, ext, req, hc, sess>>

\* mutant: a node that needs the historical cases also insists on them
RequiredPresent_with_historical_cases(n, vals) ==
    /\ IF n = "read_pdf" THEN vals["pdf_bytes"] # 0 ELSE vals["read_pdf"] > 0
    /\ n \in COMPONENTS_NEEDING_HISTORICAL_CASES => vals["historical_cases"] > 0

\* the test a node function makes of its input before it works: read_pdf
\* needs pdf_bytes (read_pdf.py line 20-31), every other node a truthy
\* pdf_content_in_english (e.g. evidence_checklist.py line 29-30); the
\* historical cases are read with a default (evidence_checklist.py line 36)
RequiredPresent(n, vals) ==
    IF n = "read_pdf" THEN vals["pdf_bytes"] # 0 ELSE vals["read_pdf"] > 0

\* str(e) of the exception a node raises (upload.py line 138)
MessageOf(n, vals) ==
    IF RequiredPresent(n, vals) THEN "task error"
    ELSE IF n = "read_pdf" THEN "Either pdf_bytes or pdf_path is required in state."
         ELSE "pdf_content_in_english is required"

\* a node function is called with the state of the superstep's start
NodeStart(j, n) ==
    /\ j \in DOMAIN job_store
    /\ bg[j].pc = "stream"
    /\ run[j].tasks[n] = "pending"
    /\ run' = [run EXCEPT
                 ![j].tasks[n] = "running",
                 ![j].calls[n] = @ + 1,
                 ![j].hc_seen = IF n \in COMPONENTS_NEEDING_HISTORICAL_CASES
                                THEN @ \cup {run[j].vals["historical_cases"]}
                                ELSE @]
    /\ UNCHANGED <<job_store, results_store, checkpoint, bg, rq, retry, idx, ext, req, hc, sess>>

\* the keys a node function assigns in the state dict it was called with,
\* besides returning its update (investigation_plan.py line 186)
AssignsIntoState(n) ==
    IF n = "investigation_plan" THEN {"investigation_plan"} ELSE {}

\* a node returns its update; the stream yields the event {node_name: output}
\* and the loop body of lines 97-101 counts it and updates the progress;
\* assigned collects the keys the nodes of the run assigned in their own
\* input dict
NodeFinish(j, n, falsy) ==
    /\ j \in DOMAIN job_store
    /\ bg[j].pc = "stream"
    /\ run[j].tasks[n] = "running"
    /\ RequiredPresent(n, run[j].vals)
    /\ falsy => n \in CanBeFalsy
    /\ run' = [run EXCEPT ![j].tasks[n] = "done",
                          ![j].writes[n] = IF falsy THEN 0 - j ELSE j,
                          ![j].finished = @ \cup {n},
                          ![j].assigned = @ \cup AssignsIntoState(n)]
    /\ LET completed_nodes == bg[j].completed_nodes + 1
       IN  /\ bg' = [bg EXCEPT ![j].completed_nodes = completed_nodes]
           /\ job_store' = [job_store EXCEPT
                              ![j].progress = ProgressOf(completed_nodes, bg[j].total_nodes)]
    /\ UNCHANGED <<results_store, checkpoint, rq, retry, idx, ext, req, hc, sess>>

\* mutant: the exception of a node is recorded and the run goes on with the
\* node's siblings and successors
NodeFail_best_effort(j, n) ==
    /\ j \in DOMAIN job_store
    /\ bg[j].pc = "stream"
    /\ run[j].tasks[n] = "running"
    /\ run' = [run EXCEPT ![j].tasks[n] = "done"]
    /\ bg' = [bg EXCEPT ![j].raised_by = n]
    /\ UNCHANGED <<job_store, results_store, checkpoint, rq, retry, idx, ext, req, hc, sess>>

\* a node raises: graph.stream() raises (lines 109-112) and the handler of
\* lines 136-143 marks the job failed; the updates of the unfinished superstep
\* are not applied to the state
NodeFail(j, n) ==
    /\ j \in DOMAIN job_store
    /\ bg[j].pc = "stream"
    /\ run[j].tasks[n] = "running"
    /\ run' = [run EXCEPT ![j] = IdleRun]
    /\ FailJob(j, MessageOf(n, run[j].vals))
    /\ bg' = [bg EXCEPT ![j] = [IdleBg EXCEPT !.pc = "failed", !.raised_by = n]]
    /\ UNCHANGED <<results_store, checkpoint, rq, retry, idx, ext, req, hc, sess>>

\* every node of the superstep has finished: apply the updates, save the
\* checkpoint, and schedule the nodes the finished nodes lead to
StepEnd(j) ==
    /\ j \in DOMAIN job_store
    /\ bg[j].pc = "stream"
    /\ LET r == run[j]
           step == {n \in Nodes : r.tasks[n] # "off"}
           vals == [f \in Fields |-> IF r.writes[f] # 0 THEN r.writes[f] ELSE r.vals[f]]
           next == (UNION {Successors(n, r.sections) : n \in step}) \ {END}
       IN  /\ step # {}
           /\ \A n \in step : r.tasks[n] = "done"
           /\ run' = [run EXCEPT
                        ![j].vals = vals,
                        ![j].writes = EmptyVals,
                        ![j].tasks = [n \in Nodes |-> IF n \in next THEN "pending" ELSE "off"]]
           /\ checkpoint' = [exists |-> TRUE, vals |-> vals, sections |-> r.sections]
           /\ bg' = [bg EXCEPT ![j].pc = IF next = {} THEN "store" ELSE "stream"]
    /\ UNCHANGED <<job_store, results_store, rq, retry, idx, ext, req, hc, sess>>

\* lines 114-125: the final state, without pdf_bytes, becomes the session's result
BgStore(j) ==
    /\ j \in DOMAIN job_store
    /\ bg[j].pc = "store"
    /\ results_store' = [vals |-> [checkpoint.vals EXCEPT !["pdf_bytes"] = 0],
                         sections |-> checkpoint.sections,
                         workflow_id |-> WorkflowId]
    /\ bg' = [bg EXCEPT ![j].pc = "complete"]
    /\ UNCHANGED <<job_store, checkpoint, run, rq, retry, idx, ext, req, hc, sess>>

\* line 128
BgCompleteStatus(j) ==
    /\ j \in DOMAIN job_store
    /\ bg[j].pc = "complete"
    /\ job_store' = [job_store EXCEPT ![j].status = "completed"]
    /\ bg' = [bg EXCEPT ![j].pc = "complete_workflow_id"]
    /\ UNCHANGED <<results_store, checkpoint, run, rq, retry, idx, ext, req, hc, sess>>

\* line 129
BgCompleteWorkflowId(j) ==
    /\ j \in DOMAIN job_store
    /\ bg[j].pc = "complete_workflow_id"
    /\ job_store' = [job_store EXCEPT ![j].workflow_id = WorkflowId]
    /\ bg' = [bg EXCEPT ![j].pc = "complete_progress"]
    /\ UNCHANGED <<results_store, checkpoint, run, rq, retry, idx, ext, req, hc, sess>>

\* mutant: a statement after line 128 may raise, and the handler of lines
\* 136-143 then marks the completed job failed
BgCompleteProgress_may_raise(j) ==
    /\ j \in DOMAIN job_store
    /\ bg[j].pc = "complete_progress"
    /\ \/ job_store' = [job_store EXCEPT ![j].progress = 100]
       \/ FailJob(j, "packaging")
    /\ bg' = [bg EXCEPT ![j] = [IdleBg EXCEPT !.pc = "done"]]
    /\ run' = [run EXCEPT ![j] = IdleRun]
    /\ UNCHANGED <<results_store, checkpoint, rq, retry, idx, ext, req, hc, sess>>

\* line 130
BgCompleteProgress(j) ==
    /\ j \in DOMAIN job_store
    /\ bg[j].pc = "complete_progress"
    /\ job_store' = [job_store EXCEPT ![j].progress = 100]
    /\ bg' = [bg EXCEPT ![j] = [IdleBg EXCEPT !.pc = "done"]]
    /\ run' = [run EXCEPT ![j] = IdleRun]
    /\ UNCHANGED <<results_store, checkpoint, rq, retry, idx, ext, req, hc, sess>>

\* GET /status/{job_id} (get_job_status): the response for a known job
get_job_status(j) ==
    [job_id |-> j, status |-> job_store[j].status, progress |-> job_store[j].progress,
     workflow_id |-> IF job_store[j].status = "completed"
                     THEN job_store[j].workflow_id ELSE "absent",
     error |-> IF job_store[j].status = "failed" THEN job_store[j].error ELSE "absent"]

\* config.py: the stores start empty; no thread has a checkpoint
SessionInit ==
    /\ job_store = <<>>
    /\ results_store = NoResult
    /\ checkpoint = [exists |-> FALSE, vals |-> EmptyVals, sections |-> {}]
    /\ bg = [j \in JobIds |-> IdleBg]
    /\ run = [j \in JobIds |-> IdleRun]

Init ==
    /\ SessionInit
    /\ rq = IdleRq
    /\ retry = IdleRetry
    /\ idx = IdleIdx
    /\ sess = IdleSess
    /\ hc = IdleHc
    /\ req = IdleReq
    /\ ext = IdleExt

Next ==
    \/ \E j \in JobIds, sections_list \in SectionChoices, file \in BOOLEAN :
            Upload(j, sections_list, file)
    \/ \E j \in JobIds : BgBegin(j)
    \/ \E j \in JobIds : BgSetup(j)
    \/ \E j \in JobIds : StreamStart(j)
    \/ \E j \in JobIds, n \in Nodes : NodeStart(j, n)
    \/ \E j \in JobIds, n \in Nodes, falsy \in BOOLEAN : NodeFinish(j, n, falsy)
    \/ \E j \in JobIds, n \in Nodes : NodeFail(j, n)
    \/ \E j \in JobIds : StepEnd(j)
    \/ \E j \in JobIds : BgStore(j)
    \/ \E j \in JobIds : BgCompleteStatus(j)
    \/ \E j \in JobIds : BgCompleteWorkflowId(j)
    \/ \E j \in JobIds : BgCompleteProgress(j)

Spec == Init /\ [][Next]_vars

(***************************************************************************)
(* SpecOverlap: the same session when POST /upload arrives while an        *)
(* earlier job is still in flight.  upload_pdf (lines 158-218) accepts it  *)
(* and adds a second background task for the same thread_id; the two runs  *)
(* each load, stream and save against the one checkpoint.                  *)
(***************************************************************************)
OverlapChoices == {{"ndps"}, {"evidence"}}

UploadOverlapping(j, sections_list, file) == Submit(j, sections_list, file)

NextOverlap ==
    \/ \E j \in JobIds, sections_list \in OverlapChoices, file \in BOOLEAN :
            UploadOverlapping(j, sections_list, file)
    \/ \E j \in JobIds : BgBegin(j)
    \/ \E j \in JobIds : BgSetup(j)
    \/ \E j \in JobIds : StreamStart(j)
    \/ \E j \in JobIds, n \in Nodes : NodeStart(j, n)
    \/ \E j \in JobIds, n \in Nodes, falsy \in BOOLEAN : NodeFinish(j, n, falsy)
    \/ \E j \in JobIds, n \in Nodes : NodeFail(j, n)
    \/ \E j \in JobIds : StepEnd(j)
    \/ \E j \in JobIds : BgStore(j)
    \/ \E j \in JobIds : BgCompleteStatus(j)
    \/ \E j \in JobIds : BgCompleteWorkflowId(j)
    \/ \E j \in JobIds : BgCompleteProgress(j)

SpecOverlap == Init /\ [][NextOverlap]_vars

(***************************************************************************)
(* SpecPlan: the session of Spec when the requests name the section        *)
(* investigation_plan, alone or next to evidence.                          *)
(***************************************************************************)
PlanChoices == {{"investigation_plan"}, {"investigation_plan", "evidence"}}

NextPlan ==
    \/ \E j \in JobIds, sections_list \in PlanChoices, file \in BOOLEAN :
            Upload(j, sections_list, file)
    \/ \E j \in JobIds : BgBegin(j)
    \/ \E j \in JobIds : BgSetup(j)
    \/ \E j \in JobIds : StreamStart(j)
    \/ \E j \in JobIds, n \in Nodes : NodeStart(j, n)
    \/ \E j \in JobIds, n \in Nodes, falsy \in BOOLEAN : NodeFinish(j, n, falsy)
    \/ \E j \in JobIds, n \in Nodes : NodeFail(j, n)
    \/ \E j \in JobIds : StepEnd(j)
    \/ \E j \in JobIds : BgStore(j)
    \/ \E j \in JobIds : BgCompleteStatus(j)
    \/ \E j \in JobIds : BgCompleteWorkflowId(j)
    \/ \E j \in JobIds : BgCompleteProgress(j)

SpecPlan == Init /\ [][NextPlan]_vars

(***************************************************************************)
(* SpecLive: the session when no node raises (so the uploaded PDF has a    *)
(* text layer: extract_fir_fact would raise on an empty text).  The        *)
(* background task of an accepted upload is run by Starlette after the     *)
(* response and the nodes of a superstep by worker threads, so a step of a *)
(* run that stays possible is eventually taken.                            *)
(***************************************************************************)
NodeReturns(j, n, falsy) ==
    /\ n = "read_pdf" => ~falsy
    /\ NodeFinish(j, n, falsy)

RunStep ==
    \/ \E j \in JobIds : BgBegin(j)
    \/ \E j \in JobIds : BgSetup(j)
    \/ \E j \in JobIds : StreamStart(j)
    \/ \E j \in JobIds, n \in Nodes : NodeStart(j, n)
    \/ \E j \in JobIds, n \in Nodes, falsy \in BOOLEAN : NodeReturns(j, n, falsy)
    \/ \E j \in JobIds : StepEnd(j)
    \/ \E j \in JobIds : BgStore(j)
    \/ \E j \in JobIds : BgCompleteStatus(j)
    \/ \E j \in JobIds : BgCompleteWorkflowId(j)
    \/ \E j \in JobIds : BgCompleteProgress(j)

NextLive ==
    \/ \E j \in JobIds, sections_list \in SectionChoices, file \in BOOLEAN :
            Upload(j, sections_list, file)
    \/ RunStep

SpecLive == Init /\ [][NextLive]_vars /\ WF_vars(RunStep)

(***************************************************************************)
(* SpecRoute: the waves the graph's conditional edges produce after        *)
(* extract_fir_fact, for every non-empty set of selected sections.         *)
(***************************************************************************)
InitRoute ==
    /\ SessionInit
    /\ retry = IdleRetry
    /\ idx = IdleIdx
    /\ sess = IdleSess
    /\ hc = IdleHc
    /\ req = IdleReq
    /\ ext = IdleExt
    /\ rq \in {[pc |-> "extract_fir_fact", sections |-> S, waves |-> <<>>] :
                    S \in (SUBSET AllSections) \ {{}}}

\* the conditional edge of extract_fir_fact (route_all_sections)
RouteAfterExtract ==
    /\ rq.pc = "extract_fir_fact"
    /\ LET next == Successors("extract_fir_fact", rq.sections) \ {END}
       IN  rq' = [rq EXCEPT !.pc = IF next = {} THEN "end" ELSE "wave",
                            !.waves = IF next = {} THEN <<>> ELSE <<next>>]
    /\ UNCHANGED <<job_store, results_store, checkpoint, bg, run, retry, idx, ext, req, hc, sess>>

\* the edges of the nodes of the last wave, once all of them have finished
RouteAfterWave ==
    /\ rq.pc = "wave"
    /\ LET last == rq.waves[Len(rq.waves)]
           next == (UNION {Successors(n, rq.sections) : n \in last}) \ {END}
       IN  rq' = [rq EXCEPT !.pc = IF next = {} THEN "end" ELSE "wave",
                            !.waves = IF next = {} THEN @ ELSE Append(@, next)]
    /\ UNCHANGED <<job_store, results_store, checkpoint, bg, run, retry, idx, ext, req, hc, sess>>

NextRoute ==
    \/ RouteAfterExtract
    \/ RouteAfterWave

SpecRoute == InitRoute /\ [][NextRoute]_vars

(***************************************************************************)
(* SpecRetry: wrapper() of exponential_backoff_retry(max_retries, max_wait)*)
(* around a function whose calls raise until call number first_ok returns  *)
(* (first_ok = 0: every call raises).  Waits are kept in milliseconds and  *)
(* the jitter uniform(0, 0.1) in thousandths.                              *)
(***************************************************************************)
MaxWaitChoices == {1, 4, 60}

JitterChoices == {0, 50, 100}

RECURSIVE Pow2(_)
Pow2(n) == IF n = 0 THEN 1 ELSE 2 * Pow2(n - 1)

\* mutant: the exponent is taken after attempt was incremented
BaseWait_next_attempt(attempt, max_wait) ==
    Min(1000 * Pow2(attempt + 1), 1000 * max_wait)

\* line 35: wait_time = min(base_wait * (2 ** attempt), max_wait), base_wait = 1,
\* in milliseconds
BaseWait(attempt, max_wait) == Min(1000 * Pow2(attempt), 1000 * max_wait)

\* line 35-37, in milliseconds: the capped wait times 1 + jitter
WaitTime(attempt, max_wait, jitter) ==
    (BaseWait(attempt, max_wait) * (1000 + jitter)) \div 1000

\* mutant: the loop runs while attempt < max_retries
LoopTest_strict(attempt, max_retries) == attempt < max_retries

\* line 26: while attempt <= max_retries
LoopTest(attempt, max_retries) == attempt <= max_retries

\* mutant: the wrapper sleeps once more before it gives up
GivesUp_late(attempt, max_retries) == attempt > max_retries

\* mutant: the wrapper gives up one attempt early
GivesUp_early(attempt, max_retries) == attempt + 1 >= max_retries

\* line 30: if attempt >= max_retries
GivesUp(attempt, max_retries) == attempt >= max_retries

\* the exception raised by the wrapped function's k-th call
ErrorOf(k) == [type |-> "OperationError", call |-> k, cause |-> "None"]

InitRetry ==
    /\ SessionInit
    /\ rq = IdleRq
    /\ idx = IdleIdx
    /\ sess = IdleSess
    /\ hc = IdleHc
    /\ req = IdleReq
    /\ ext = IdleExt
    /\ retry \in {[IdleRetry EXCEPT !.pc = "loop", !.max_retries = m,
                                    !.max_wait = w, !.first_ok = f] :
                    m \in 0..MaxRetriesArg, w \in MaxWaitChoices, f \in 0..MaxFirstOk}

\* line 26-28: the loop test holds and func(*args, **kwargs) returns
RetryCallReturns ==
    /\ retry.pc = "loop"
    /\ LoopTest(retry.attempt, retry.max_retries)
    /\ retry.calls + 1 = retry.first_ok
    /\ retry' = [retry EXCEPT !.calls = @ + 1, !.pc = "returned",
                              !.result = retry.calls + 1]
    /\ UNCHANGED <<job_store, results_store, checkpoint, bg, run, rq, idx, ext, req, hc, sess>>

\* the wrapper raises.  Lines 29-32: the call raises and no retry is left, so
\* the exception is re-raised by the bare raise.  Line 44: the loop test fails
\* (no execution reaches it: the last iteration returns or raises).
RetryRaises ==
    /\ retry.pc = "loop"
    /\ IF LoopTest(retry.attempt, retry.max_retries)
       THEN /\ retry.calls + 1 # retry.first_ok
            /\ GivesUp(retry.attempt, retry.max_retries)
            /\ retry' = [retry EXCEPT !.calls = @ + 1, !.pc = "raised",
                                      !.raised = ErrorOf(retry.calls + 1)]
       ELSE retry' = [retry EXCEPT !.pc = "raised",
                                   !.raised = [type |-> "Exception", call |-> 0,
                                               cause |-> "None"]]
    /\ UNCHANGED <<job_store, results_store, checkpoint, bg, run, rq, idx, ext, req, hc, sess>>

\* lines 29-41: the call raises, the wrapper sleeps wait_time and loops
RetryCallRaisesAndSleeps(jitter) ==
    /\ retry.pc = "loop"
    /\ LoopTest(retry.attempt, retry.max_retries)
    /\ retry.calls + 1 # retry.first_ok
    /\ ~GivesUp(retry.attempt, retry.max_retries)
    /\ retry' = [retry EXCEPT
                   !.calls = @ + 1,
                   !.attempt = @ + 1,
                   !.waits = Append(@, BaseWait(retry.attempt, retry.max_wait)),
                   !.sleeps = Append(@, WaitTime(retry.attempt, retry.max_wait, jitter))]
    /\ UNCHANGED <<job_store, results_store, checkpoint, bg, run, rq, idx, ext, req, hc, sess>>

NextRetry ==
    \/ RetryCallReturns
    \/ RetryRaises
    \/ \E jitter \in JitterChoices : RetryCallRaisesAndSleeps(jitter)

SpecRetry == InitRetry /\ [][NextRetry]_vars

(***************************************************************************)
(* SpecIndex: _load_index(act_code) of rag/query_all.py called by several  *)
(* threads (the nodes of a superstep and the background runs of different  *)
(* jobs run in worker threads).  The function takes no lock, so a thread   *)
(* may be preempted between any two of its statements.                     *)
(***************************************************************************)
InitIndex ==
    /\ SessionInit
    /\ rq = IdleRq
    /\ retry = IdleRetry
    /\ idx = IdleIdx
    /\ sess = IdleSess
    /\ hc = IdleHc
    /\ req = IdleReq
    /\ ext = IdleExt

\* a query function calls _load_index(act_code) (e.g. line 75)
LoadCall(t, act_code) ==
    /\ idx.th[t].pc = "idle"
    /\ idx' = [idx EXCEPT !.th[t] = [IdleLoader EXCEPT !.pc = "check",
                                                       !.act_code = act_code]]
    /\ UNCHANGED <<job_store, results_store, checkpoint, bg, run, rq, retry, ext, req, hc, sess>>

\* line 18-19: the act code is in _index_cache, both caches are subscripted;
\* _chunks_cache[act_code] raises KeyError when the entry is not there yet
LoadCheckHit(t) ==
    /\ idx.th[t].pc = "check"
    /\ idx.th[t].act_code \in idx.index_cache
    /\ idx' = [idx EXCEPT !.th[t].pc = "done",
                          !.th[t].outcome =
                              IF idx.th[t].act_code \in idx.chunks_cache
                              THEN "returned" ELSE "KeyError"]
    /\ UNCHANGED <<job_store, results_store, checkpoint, bg, run, rq, retry, ext, req, hc, sess>>

\* line 18: the act code is not in _index_cache; lines 21-54 find its files
LoadCheckMiss(t) ==
    /\ idx.th[t].pc = "check"
    /\ idx.th[t].act_code \notin idx.index_cache
    /\ idx' = [idx EXCEPT !.th[t].pc = "read"]
    /\ UNCHANGED <<job_store, results_store, checkpoint, bg, run, rq, retry, ext, req, hc, sess>>

\* lines 56-58: faiss.read_index and json.load read the two files
LoadReadFiles(t) ==
    /\ idx.th[t].pc = "read"
    /\ idx' = [idx EXCEPT !.th[t].pc = "set_index",
                          !.reads[idx.th[t].act_code] = @ + 1]
    /\ UNCHANGED <<job_store, results_store, checkpoint, bg, run, rq, retry, ext, req, hc, sess>>

\* line 60: _index_cache[act_code] = index
LoadSetIndex(t) ==
    /\ idx.th[t].pc = "set_index"
    /\ idx' = [idx EXCEPT !.th[t].pc = "set_chunks",
                          !.index_cache = @ \cup {idx.th[t].act_code}]
    /\ UNCHANGED <<job_store, results_store, checkpoint, bg, run, rq, retry, ext, req, hc, sess>>

\* line 61-63: _chunks_cache[act_code] = chunks; return index, chunks
LoadSetChunks(t) ==
    /\ idx.th[t].pc = "set_chunks"
    /\ idx' = [idx EXCEPT !.th[t].pc = "done", !.th[t].outcome = "returned",
                          !.chunks_cache = @ \cup {idx.th[t].act_code}]
    /\ UNCHANGED <<job_store, results_store, checkpoint, bg, run, rq, retry, ext, req, hc, sess>>

NextIndex ==
    \/ \E t \in Loaders, act_code \in ActCodes : LoadCall(t, act_code)
    \/ \E t \in Loaders : LoadCheckHit(t)
    \/ \E t \in Loaders : LoadCheckMiss(t)
    \/ \E t \in Loaders : LoadReadFiles(t)
    \/ \E t \in Loaders : LoadSetIndex(t)
    \/ \E t \in Loaders : LoadSetChunks(t)

SpecIndex == InitIndex /\ [][NextIndex]_vars

(***************************************************************************)
(* SpecCalls: the remote calls one node function makes, in order, when at  *)
(* most one of them fails transiently (its first invocation raises, any    *)
(* later one returns).  A call is wrapped when it is made through a        *)
(* function decorated with exponential_backoff_retry, and absorbed when    *)
(* its exception is caught inside the node.  ndps_legal_mapping and        *)
(* bns_legal_mapping are left out (no source).                             *)
(***************************************************************************)
Call(kind, wrapped, absorbed) ==
    [kind |-> kind, wrapped |-> wrapped, absorbed |-> absorbed]

WrappedLlm == <<Call("llm", TRUE, FALSE)>>

ExternalCalls(n) ==
    CASE n = "extract_fir_fact" ->                    \* fir_fact_extraction.py 168
            <<Call("llm", FALSE, FALSE)>>
      [] n = "historical_cases" ->      \* historical_cases.py 616, 381, 195, 471
            <<Call("llm", FALSE, FALSE), Call("web", FALSE, TRUE),
              Call("web", FALSE, TRUE), Call("llm", FALSE, TRUE)>>
      [] n = "investigation_and_legal_timeline" ->    \* line 207
            <<Call("llm", FALSE, FALSE)>>
      [] n = "bnss_legal_mapping" ->                  \* lines 90, 106, 218
            <<Call("llm", TRUE, FALSE), Call("vector", FALSE, FALSE),
              Call("llm", TRUE, FALSE)>>
      [] n = "bsa_legal_mapping" ->                   \* lines 76, 92, 182
            <<Call("llm", TRUE, FALSE), Call("vector", FALSE, FALSE),
              Call("llm", TRUE, FALSE)>>
      [] n = "generate_evidence_checklist" ->         \* lines 61, 70, 185
            <<Call("llm", FALSE, FALSE), Call("vector", FALSE, FALSE),
              Call("llm", TRUE, FALSE)>>
      [] OTHER -> WrappedLlm

CallingNodes == Nodes \ {"read_pdf", "ndps_legal_mapping", "bns_legal_mapping"}

InitCalls ==
    /\ SessionInit
    /\ rq = IdleRq
    /\ retry = IdleRetry
    /\ idx = IdleIdx
    /\ sess = IdleSess
    /\ hc = IdleHc
    /\ req = IdleReq
    /\ ext \in UNION {{[IdleExt EXCEPT !.pc = "call", !.node = n, !.fail_at = f, !.i = 1] :
                            f \in 0..Len(ExternalCalls(n))} : n \in CallingNodes}

\* the node goes on after call i: to the next call, or it returns its update
AfterCall(e) ==
    IF e.i = Len(ExternalCalls(e.node))
    THEN [e EXCEPT !.pc = "returned"]
    ELSE [e EXCEPT !.pc = "call", !.i = @ + 1]

\* the remote call returns
ExtCallReturns ==
    /\ ext.pc = "call"
    /\ ext.i # ext.fail_at \/ ext.failed_once
    /\ ext' = AfterCall(ext)
    /\ UNCHANGED <<job_store, results_store, checkpoint, bg, run, rq, retry, idx, req, hc, sess>>

\* the remote call raises: the retry wrapper catches it and sleeps
\* (retry.py 29-41), or the node catches it and goes on (historical_cases.py
\* 439-443, 206-211, 485), or it leaves the node function
ExtCallRaises ==
    /\ ext.pc = "call"
    /\ ext.i = ext.fail_at /\ ~ext.failed_once
    /\ LET c == ExternalCalls(ext.node)[ext.i]
           e == [ext EXCEPT !.failed_once = TRUE]
       IN  ext' = IF c.wrapped THEN [e EXCEPT !.pc = "sleep"]
                  ELSE IF c.absorbed THEN AfterCall(e)
                  ELSE [e EXCEPT !.pc = "raised"]
    /\ UNCHANGED <<job_store, results_store, checkpoint, bg, run, rq, retry, idx, req, hc, sess>>

\* retry.py 41 and 26-28: the sleep ends and the call is made again
ExtRetry ==
    /\ ext.pc = "sleep"
    /\ ext' = [ext EXCEPT !.pc = "call", !.retried = TRUE]
    /\ UNCHANGED <<job_store, results_store, checkpoint, bg, run, rq, retry, idx, req, hc, sess>>

NextCalls ==
    \/ ExtCallReturns
    \/ ExtCallRaises
    \/ ExtRetry

SpecCalls == InitCalls /\ [][NextCalls]_vars

(***************************************************************************)
(* Vocabulary of the properties.                                           *)
(***************************************************************************)
\* the node a selected section stands for (workflow.py lines 57-95)
NodeOf(section) ==
    CASE section = "ndps" -> "ndps_legal_mapping"
      [] section = "bns" -> "bns_legal_mapping"
      [] section = "bnss" -> "bnss_legal_mapping"
      [] section = "bsa" -> "bsa_legal_mapping"
      [] section = "timeline" -> "investigation_and_legal_timeline"
      [] section = "historical_cases" -> "historical_cases"
      [] section = "investigation_plan" -> "investigation_plan"
      [] section = "evidence" -> "generate_evidence_checklist"
      [] section = "dos_and_donts" -> "generate_dos_and_donts"
      [] section = "weaknesses" -> "generate_potential_prosecution_weaknesses"
      [] section = "defence_rebuttal" -> "generate_defence_perspective_rebuttal"
      [] section = "court_summary" -> "generate_summary_for_the_court"
      [] section = "chargesheet" -> "generate_chargesheet"

\* the sections routed without waiting for historical_cases (lines 66-75)
IndependentSections == {"ndps", "bns", "bnss", "bsa", "timeline"}

NodesOf(sections) == {NodeOf(s) : s \in sections}

Wave0Tasks(sections) ==
    {"historical_cases"} \cup NodesOf(sections \cap IndependentSections)

Wave1Tasks(sections) ==
    NodesOf(sections \cap components_needing_historical_cases)

Packaging == {"store", "complete", "complete_workflow_id", "complete_progress"}

(***************************************************************************)
(* C1.  Incremental re-run: once an earlier job of the session has         *)
(* completed, the run of a later job invokes no node whose output was      *)
(* already present in the state the job loaded.                            *)
(* The code re-runs the whole graph: this statement is violated.           *)
(***************************************************************************)
C1_NoReinvocation ==
    \A j \in DOMAIN job_store :
        (j > 1 /\ job_store[j - 1].status = "completed" /\ bg[j - 1].pc = "done")
            => \A n \in Nodes :
                    run[j].calls[n] > 0 => bg[j].graph_state.vals[n] = 0

(***************************************************************************)
(* C2.  Wave order: a task that needs historical cases has started in a    *)
(* run only if historical_cases and every other wave-0 task of that run    *)
(* (the selected legal mappings and timeline) have finished.               *)
(***************************************************************************)
C2_WaveOrder ==
    \A j \in DOMAIN job_store :
        \A n \in COMPONENTS_NEEDING_HISTORICAL_CASES :
            run[j].calls[n] > 0 =>
                /\ "historical_cases" \in run[j].finished
                /\ Wave0Tasks(run[j].sections) \subseteq run[j].finished

C2_Witness ==
    \E j \in DOMAIN job_store :
        /\ run[j].tasks["generate_evidence_checklist"] = "running"
        /\ "ndps" \in run[j].sections
        /\ {"historical_cases", "ndps_legal_mapping"} \subseteq run[j].finished

(***************************************************************************)
(* C3.  A selection with at least one section needing historical cases is  *)
(* routed in exactly two waves: historical_cases plus the selected         *)
(* independent tasks, then exactly the selected dependent tasks.           *)
(***************************************************************************)
C3_TwoWaves ==
    (rq.pc = "end" /\ rq.sections \cap components_needing_historical_cases # {})
        => rq.waves = <<Wave0Tasks(rq.sections), Wave1Tasks(rq.sections)>>

C3_Witness ==
    /\ rq.pc = "end"
    /\ rq.sections = {"ndps", "timeline", "evidence", "chargesheet"}
    /\ Len(rq.waves) = 2
    /\ "historical_cases" \in rq.waves[1]

(***************************************************************************)
(* C4.  A selection in which no section needs historical cases is routed   *)
(* in exactly one wave holding all selected tasks.                         *)
(***************************************************************************)
C4_OneWave ==
    (rq.pc = "end" /\ rq.sections \cap components_needing_historical_cases = {})
        => rq.waves = <<NodesOf(rq.sections)>>

C4_Witness ==
    /\ rq.pc = "end"
    /\ rq.sections = {"ndps", "bns", "timeline", "historical_cases"}
    /\ Len(rq.waves) = 1

(***************************************************************************)
(* C5.  With historical_cases selected together with dependent sections,   *)
(* the node runs at most once in a run, exactly once before any dependent  *)
(* task starts, every dependent task reads the output that one execution   *)
(* wrote, and a finished run has run it and each dependent exactly once.   *)
(***************************************************************************)
C5_HistoricalOnce ==
    \A j \in DOMAIN job_store :
        LET r == run[j] IN
        ("historical_cases" \in r.sections
            /\ r.sections \cap components_needing_historical_cases # {}) =>
            /\ r.calls["historical_cases"] <= 1
            /\ \A n \in COMPONENTS_NEEDING_HISTORICAL_CASES :
                    r.calls[n] > 0 =>
                        (r.calls["historical_cases"] = 1 /\ r.hc_seen \in {{j}, {0 - j}})
            /\ bg[j].pc \in Packaging =>
                    /\ r.calls["historical_cases"] = 1
                    /\ \A n \in Wave1Tasks(r.sections) : r.calls[n] = 1

C5_Witness ==
    \E j \in DOMAIN job_store :
        /\ {"historical_cases", "evidence", "chargesheet"} \subseteq run[j].sections
        /\ bg[j].pc = "store"
        /\ run[j].hc_seen = {j}
        /\ j > 1

(***************************************************************************)
(* C6.  The progress a poll of a job returns never decreases from one      *)
(* state to the next, and a poll returns progress 100 only together with   *)
(* status completed.                                                       *)
(***************************************************************************)
C6_ProgressMonotone ==
    /\ [](\A j \in DOMAIN job_store :
            get_job_status(j).progress = 100 => get_job_status(j).status = "completed")
    /\ [][\A j \in DOMAIN job_store :
            get_job_status(j)'.progress >= get_job_status(j).progress]_vars

C6_Witness ==
    \E j \in DOMAIN job_store :
        /\ get_job_status(j).progress = 100
        /\ get_job_status(j).status = "completed"
        /\ \E k \in DOMAIN job_store :
              get_job_status(k).status = "failed" /\ get_job_status(k).progress > 10

(***************************************************************************)
(* C7.  During a run the progress after the k-th node completion is        *)
(* min(floor(10 + k / total * 85), 95), one update per completed node,     *)
(* with total = number of sections + 2; it is at most 95 until the job is  *)
(* completed, and then it is 100 with status completed.                    *)
(***************************************************************************)
C7_ProgressFormula ==
    \A j \in DOMAIN job_store :
        LET k == Cardinality(run[j].finished)
            total == Cardinality(run[j].sections) + 2
        IN  /\ bg[j].pc \in {"stream"} \cup Packaging =>
                    /\ bg[j].completed_nodes = k
                    /\ job_store[j].progress = Min(10 + (k * 85) \div total, 95)
            /\ bg[j].pc # "done" => job_store[j].progress <= 95
            /\ bg[j].pc = "done" =>
                    job_store[j].progress = 100 /\ job_store[j].status = "completed"

C7_Witness ==
    \E j \in DOMAIN job_store :
        /\ bg[j].pc = "stream"
        /\ Cardinality(run[j].sections) = 2
        /\ Cardinality(run[j].finished) = 3
        /\ job_store[j].progress = 73
        /\ \E n \in Nodes : run[j].tasks[n] = "running"

(***************************************************************************)
(* C8.  A job's status only moves forward, from processing (the code's     *)
(* one name for pending and running) to completed or failed, and a         *)
(* completed or failed job keeps its status under every later step.        *)
(***************************************************************************)
StatusRank(status) ==
    CASE status = "processing" -> 1
      [] status \in {"completed", "failed"} -> 2
      [] OTHER -> 0

C8_StatusForward ==
    /\ [](\A j \in DOMAIN job_store : StatusRank(job_store[j].status) >= 1)
    /\ [][\A j \in DOMAIN job_store :
            /\ StatusRank(job_store'[j].status) >= StatusRank(job_store[j].status)
            /\ job_store[j].status \in {"completed", "failed"}
                    => job_store'[j].status = job_store[j].status]_vars

C8_Witness ==
    \E j, k \in DOMAIN job_store :
        /\ j < k
        /\ job_store[j].status = "completed"
        /\ job_store[k].status = "failed"

(***************************************************************************)
(* C9.  Retry success: if the wrapped function raises on its first N-1     *)
(* calls and returns on call N, N <= max_retries + 1, the wrapper returns  *)
(* the result of call N and the function is called exactly N times.        *)
(***************************************************************************)
C9_RetrySuccess ==
    (retry.first_ok >= 1 /\ retry.first_ok <= retry.max_retries + 1) =>
        /\ retry.calls <= retry.first_ok
        /\ retry.pc # "raised"
        /\ retry.pc = "returned" =>
                (retry.result = retry.first_ok /\ retry.calls = retry.first_ok)
        /\ retry.pc = "loop" => retry.calls < retry.first_ok

C9_Witness ==
    /\ retry.pc = "returned"
    /\ retry.max_retries = 5
    /\ retry.first_ok = 6
    /\ retry.calls = 6
    /\ Len(retry.sleeps) = 5

(***************************************************************************)
(* C10.  Retry exhaustion.  As stated: a function that always fails makes  *)
(* the wrapper raise RetryExhausted, carrying the last error, after        *)
(* max_retries + 1 calls.                                                  *)
(***************************************************************************)
C10_Original ==
    (retry.first_ok = 0 /\ retry.pc = "raised") =>
        /\ retry.raised.type = "RetryExhausted"
        /\ retry.raised.cause = ErrorOf(retry.calls)
        /\ retry.calls = retry.max_retries + 1

(***************************************************************************)
(* C10, amended: a function that always fails makes the wrapper re-raise   *)
(* the exception of the last call itself, unwrapped, after exactly         *)
(* max_retries + 1 calls; the wrapper never ends otherwise.                *)
(***************************************************************************)
C10_RetryExhaustion ==
    retry.first_ok = 0 =>
        /\ retry.pc # "returned"
        /\ retry.calls <= retry.max_retries + 1
        /\ retry.pc = "raised" =>
                /\ retry.calls = retry.max_retries + 1
                /\ retry.raised = ErrorOf(retry.max_retries + 1)
        /\ retry.pc = "loop" => retry.calls <= retry.max_retries

C10_Witness ==
    /\ retry.pc = "raised"
    /\ retry.first_ok = 0
    /\ retry.max_retries = 5
    /\ retry.calls = 6
    /\ retry.raised = ErrorOf(6)

(***************************************************************************)
(* C11.  A function that raises on every call is called max_retries + 1    *)
(* times, the wrapper sleeps exactly max_retries times, one sleep after    *)
(* each failed call but the last, and then the exception of the last call  *)
(* propagates.                                                             *)
(***************************************************************************)
C11_CallsAndSleeps ==
    retry.first_ok = 0 =>
        /\ Len(retry.sleeps) <= retry.max_retries
        /\ retry.pc = "loop" => Len(retry.sleeps) = retry.calls
        /\ retry.pc = "raised" =>
                /\ retry.calls = retry.max_retries + 1
                /\ Len(retry.sleeps) = retry.max_retries
                /\ Len(retry.sleeps) = retry.calls - 1
                /\ retry.raised = ErrorOf(retry.calls)

C11_Witness ==
    /\ retry.first_ok = 0
    /\ retry.pc = "raised"
    /\ retry.max_retries = 5
    /\ retry.calls = 6
    /\ Len(retry.sleeps) = 5
    /\ retry.raised = ErrorOf(6)

(***************************************************************************)
(* C12.  The k-th retry (attempt a = k - 1, counted from 0) waits          *)
(* min(1 * 2^a, max_wait) seconds times a jitter factor between 1.0 and    *)
(* 1.1, and the waits before jitter never decrease from one retry to the   *)
(* next.                                                                   *)
(***************************************************************************)
C12_WaitSchedule ==
    /\ Len(retry.waits) = Len(retry.sleeps)
    /\ \A k \in DOMAIN retry.sleeps :
          /\ retry.waits[k] = 1000 * Min(2 ^ (k - 1), retry.max_wait)
          /\ 10 * retry.waits[k] <= 10 * retry.sleeps[k]
          /\ 10 * retry.sleeps[k] <= 11 * retry.waits[k]
    /\ \A k \in DOMAIN retry.waits :
          k > 1 => retry.waits[k - 1] <= retry.waits[k]

C12_Witness ==
    /\ retry.max_wait = 4
    /\ Len(retry.sleeps) = 5
    /\ retry.waits = <<1000, 2000, 4000, 4000, 4000>>
    /\ retry.sleeps = <<1000, 2100, 4400, 4200, 4000>>

(***************************************************************************)
(* C13.  max_wait is the maximum wait time: no single sleep lasts longer   *)
(* than max_wait seconds, whatever the attempt number and the jitter.      *)
(***************************************************************************)
C13_SleepWithinMaxWait ==
    \A k \in DOMAIN retry.sleeps : retry.sleeps[k] <= 1000 * retry.max_wait

\* the texts str(e) can be when a node raised
NodeMessages ==
    {"task error", "pdf_content_in_english is required",
     "Either pdf_bytes or pdf_path is required in state."}

(***************************************************************************)
(* C14.  Best-effort failure isolation, as stated: when one task of a wave *)
(* raises, the job is not failed as a whole.                               *)
(***************************************************************************)
C14_Original ==
    \A j \in DOMAIN job_store :
        bg[j].raised_by # "None" => job_store[j].status # "failed"

(***************************************************************************)
(* C14, amended: the run is fail-fast.  When a task raises, the job ends   *)
(* failed with the text of that one exception as its error, the step that  *)
(* fails the job writes no result, and a job gets as far as storing a      *)
(* result only when every node it invoked has finished.                    *)
(***************************************************************************)
C14_FailFast ==
    /\ [](\A j \in DOMAIN job_store :
            /\ bg[j].raised_by # "None" =>
                    /\ job_store[j].status = "failed"
                    /\ job_store[j].error \in NodeMessages
                    /\ bg[j].pc = "failed"
            /\ bg[j].pc \in Packaging =>
                    \A n \in Nodes : run[j].calls[n] > 0 => n \in run[j].finished)
    /\ [][\A j \in DOMAIN job_store :
            (bg[j].raised_by = "None" /\ bg'[j].raised_by # "None") =>
                results_store' = results_store]_vars

C14_Witness ==
    \E j \in DOMAIN job_store :
        /\ DOMAIN job_store = {j}
        /\ bg[j].raised_by = "ndps_legal_mapping"
        /\ checkpoint.sections = {"ndps", "historical_cases"}
        /\ job_store[j].status = "failed"
        /\ job_store[j].progress = 73
        /\ results_store = NoResult

(***************************************************************************)
(* C15.  As stated: if historical_cases fails in wave 0, no wave-1 task is *)
(* invoked and every selected wave-1 task is reported as                   *)
(* UnresolvedDependency in the job's outcome (read here as weakly as       *)
(* possible: the error a poll returns then says so).                       *)
(***************************************************************************)
C15_Original ==
    [][\A j \in DOMAIN job_store :
        (bg[j].raised_by = "None" /\ bg'[j].raised_by = "historical_cases"
            /\ Wave1Tasks(run[j].sections) # {}) =>
                /\ \A n \in Wave1Tasks(run[j].sections) : run[j].calls[n] = 0
                /\ get_job_status(j)'.error = "UnresolvedDependency"]_vars

(***************************************************************************)
(* C15, amended: if the historical_cases node raises, no task that needs   *)
(* the historical cases has been invoked or is invoked afterwards, and the *)
(* job ends failed with the text of that exception as its only error.      *)
(***************************************************************************)
C15_HistoricalFailure ==
    /\ [](\A j \in DOMAIN job_store :
            bg[j].raised_by = "historical_cases" =>
                /\ get_job_status(j).status = "failed"
                /\ get_job_status(j).error \in NodeMessages
                /\ \A n \in Nodes : run[j].tasks[n] = "off" /\ run[j].calls[n] = 0)
    /\ [][\A j \in DOMAIN job_store :
            (bg[j].raised_by = "None" /\ bg'[j].raised_by = "historical_cases") =>
                \A n \in COMPONENTS_NEEDING_HISTORICAL_CASES : run[j].calls[n] = 0]_vars

C15_Witness ==
    \E j \in DOMAIN job_store :
        /\ DOMAIN job_store = {j}
        /\ bg[j].raised_by = "historical_cases"
        /\ Wave1Tasks(checkpoint.sections) = {"generate_evidence_checklist"}
        /\ get_job_status(j).error = "task error"
        /\ job_store[j].progress > 10

(***************************************************************************)
(* C16.  As stated: a task whose required field is missing is not run; in  *)
(* particular no task that needs the historical cases is invoked while     *)
(* historical_cases is absent or empty.                                    *)
(***************************************************************************)
C16_Original ==
    \A j \in DOMAIN job_store :
        \A n \in COMPONENTS_NEEDING_HISTORICAL_CASES :
            run[j].calls[n] > 0 => run[j].vals["historical_cases"] > 0

(***************************************************************************)
(* C16, amended: nothing checks a task's inputs before it is invoked.      *)
(* Each task itself raises when pdf_content_in_english is missing or       *)
(* empty, which fails the job with that message, so only a task that had   *)
(* the content finishes; a task that needs the historical cases is run     *)
(* with the empty list when the search found nothing, and finishes.        *)
(***************************************************************************)
C16_TaskChecksItself ==
    /\ [](\A j \in DOMAIN job_store :
            /\ \A n \in run[j].finished \ {"read_pdf"} : run[j].vals["read_pdf"] > 0
            /\ (bg[j].pc \in Packaging /\ run[j].vals["historical_cases"] < 0) =>
                    /\ Wave1Tasks(run[j].sections) \subseteq run[j].finished
                    /\ run[j].hc_seen \subseteq {0 - j})
    /\ [][\A j \in DOMAIN job_store :
            (job_store[j].status = "processing"
                /\ job_store'[j].error = "pdf_content_in_english is required") =>
                    /\ run[j].vals["read_pdf"] <= 0
                    /\ bg'[j].raised_by \in Nodes \ {"read_pdf"}]_vars

C16_Witness ==
    \E j \in DOMAIN job_store :
        /\ bg[j].pc = "store"
        /\ run[j].vals["historical_cases"] = 0 - j
        /\ run[j].hc_seen = {0 - j}
        /\ {"generate_evidence_checklist", "generate_chargesheet"} \subseteq run[j].finished
        /\ \E k \in DOMAIN job_store :
              job_store[k].error = "pdf_content_in_english is required"

(***************************************************************************)
(* C17.  When the background run raises, the job ends failed with a        *)
(* non-empty error string and its progress is not moved to 100; the step   *)
(* that fails it leaves results_store and the checkpoint as they were, and *)
(* the checkpoint holds an output of the job only for a node that          *)
(* finished.                                                               *)
(***************************************************************************)
C17_FailureLeavesStores ==
    /\ [](\A j \in DOMAIN job_store :
            /\ job_store[j].status = "failed" =>
                    /\ job_store[j].error \notin {"None", ""}
                    /\ job_store[j].progress < 100
                    /\ bg[j].pc = "failed"
            /\ bg[j].pc = "stream" =>
                    \A n \in Nodes :
                        checkpoint.vals[n] \in {j, 0 - j} => n \in run[j].finished)
    /\ [][\A j \in DOMAIN job_store :
            (job_store[j].status # "failed" /\ job_store'[j].status = "failed") =>
                /\ results_store' = results_store
                /\ checkpoint' = checkpoint
                /\ job_store'[j].progress = job_store[j].progress]_vars

C17_Witness ==
    \E j, k \in DOMAIN job_store :
        /\ job_store[j].status = "completed"
        /\ job_store[k].status = "failed"
        /\ job_store[k].progress \in 11..95
        /\ results_store.vals["extract_fir_fact"] = j
        /\ checkpoint.vals["extract_fir_fact"] = k
        /\ checkpoint.vals["ndps_legal_mapping"] = j

(***************************************************************************)
(* C19.  Whenever a poll returns status completed, the job is fully        *)
(* packaged: progress 100, the workflow_id set, and results_store holding  *)
(* the result of that workflow_id.                                         *)
(***************************************************************************)
C19_CompletedIsPackaged ==
    \A j \in DOMAIN job_store :
        get_job_status(j).status = "completed" =>
            /\ get_job_status(j).progress = 100
            /\ get_job_status(j).workflow_id = WorkflowId
            /\ results_store.workflow_id = WorkflowId

(***************************************************************************)
(* C18.  At most one graph run is in flight per session at any time: two   *)
(* background runs never execute graph.stream() concurrently against the   *)
(* same thread_id and checkpoint.                                          *)
(***************************************************************************)
C18_OneRunPerSession ==
    \A j, k \in DOMAIN job_store :
        (bg[j].pc = "stream" /\ bg[k].pc = "stream") => j = k

(***************************************************************************)
(* C20.  Retrieval indices are loaded at most once per act code and are    *)
(* safe under concurrent first access: whatever the interleaving of        *)
(* concurrent _load_index calls for one act code, its files are read once  *)
(* and no caller fails or sees an entry in _index_cache without its entry  *)
(* in _chunks_cache.                                                       *)
(***************************************************************************)
C20_LoadOnce ==
    /\ \A a \in ActCodes : idx.reads[a] <= 1
    /\ \A t \in Loaders : idx.th[t].outcome # "KeyError"

(***************************************************************************)
(* C21.  Every external call of every node (read_pdf excluded) is wrapped  *)
(* in the retry policy: when one remote call fails once, it is retried and *)
(* the node does not raise.                                                *)
(***************************************************************************)
C21_EveryCallRetried ==
    /\ ext.pc # "raised"
    /\ (ext.failed_once /\ ext.pc = "returned") => ext.retried

\* the nodes whose outputs a request for the given sections asks for
OutputsOf(sections) ==
    NodesOf(sections) \cup
        (IF sections \cap components_needing_historical_cases # {}
         THEN {"historical_cases"} ELSE {})

(***************************************************************************)
(* C22.  Liveness of a failure-free run: when no task fails, an accepted   *)
(* job eventually has status completed and progress 100, and the stored    *)
(* result then holds the outputs of its sections' nodes and of             *)
(* historical_cases when one of them needs it -- in particular for the     *)
(* request {ndps, evidence} of a new session.                              *)
(***************************************************************************)
C22_EventuallyCompleted ==
    /\ \A j \in JobIds :
          (j \in DOMAIN job_store)
            ~> (/\ j \in DOMAIN job_store
                /\ job_store[j].status = "completed"
                /\ job_store[j].progress = 100
                /\ results_store.workflow_id = WorkflowId)
    /\ [](\A j \in DOMAIN job_store :
            bg[j].pc \in Packaging \ {"store"} =>
                \A n \in OutputsOf(bg[j].sections_list) \cup {"read_pdf", "extract_fir_fact"} :
                    results_store.vals[n] # 0)

C22_Witness ==
    /\ DOMAIN job_store = {1}
    /\ job_store[1].status = "completed"
    /\ job_store[1].progress = 100
    /\ results_store.sections = {"ndps", "evidence"}
    /\ \A n \in {"ndps_legal_mapping", "historical_cases", "generate_evidence_checklist"} :
            results_store.vals[n] = 1

C28_CompletedWithinTotal ==
    \A j \in DOMAIN job_store :
        bg[j].pc \in {"stream"} \cup Packaging =>
            /\ bg[j].completed_nodes <= bg[j].total_nodes
            /\ job_store[j].progress = 95 =>
                    OutputsOf(run[j].sections) \subseteq run[j].finished

(***************************************************************************)
(* SpecUpload: the handler of POST /upload (upload_pdf, lines 146-226)     *)
(* step by step, for requests with any sections field and any file part,   *)
(* together with the start of the background tasks it adds.                *)
(***************************************************************************)
\* the value of the form field "sections": absent, text that is not JSON,
\* or the JSON text of a list
UploadForms ==
    {NoForm, [kind |-> "garbage", list |-> {}]}
        \cup {[kind |-> "json", list |-> S] : S \in {{}} \cup OverlapChoices}

Filenames ==
    {<<>>, <<"a", ".", "p", "d", "f">>, <<"a", ".", "P", "D", "F">>,
     <<"a", ".", "t", "x", "t">>, <<"p", "d", "f">>}

UploadFiles ==
    {NoFile} \cup [present : {TRUE}, filename : Filenames, readable : BOOLEAN]

\* str.endswith
EndsWith(str, suffix) ==
    /\ Len(str) >= Len(suffix)
    /\ SubSeq(str, Len(str) - Len(suffix) + 1, Len(str)) = suffix

\* lines 162-165: json.loads(sections) if sections else [], and [] when
\* json.loads raises JSONDecodeError
ParseSections(sections) ==
    IF sections.kind = "json" THEN sections.list ELSE {}

\* the request arrives; line 158 reads the session id
UploadReceive(sections, file) ==
    /\ req.pc \in {"idle", "responded", "rejected"}
    /\ Cardinality(DOMAIN job_store) < MaxJobs
    /\ req' = [IdleReq EXCEPT !.pc = "parse", !.sections = sections, !.file = file,
                              !.jobs_before = Cardinality(DOMAIN job_store),
                              !.with_file = req.with_file]
    /\ UNCHANGED <<job_store, results_store, checkpoint, bg, run, rq, retry, idx, ext, hc, sess>>

\* lines 161-171
UploadParse ==
    /\ req.pc = "parse"
    /\ LET sections_list == ParseSections(req.sections)
       IN  IF sections_list = {}
           THEN req' = [req EXCEPT !.pc = "rejected",
                           !.response = "400 At least one section must be selected for analysis"]
           ELSE req' = [req EXCEPT !.pc = "get_state", !.sections_list = sections_list]
    /\ UNCHANGED <<job_store, results_store, checkpoint, bg, run, rq, retry, idx, ext, hc, sess>>

\* lines 173-179: job_id = uuid4(), here the next unused number
UploadGetState ==
    /\ req.pc = "get_state"
    /\ req' = [req EXCEPT !.pc = "validate_file",
                          !.job_id = Cardinality(DOMAIN job_store) + 1,
                          !.is_new_workflow = ~checkpoint.exists]
    /\ UNCHANGED <<job_store, results_store, checkpoint, bg, run, rq, retry, idx, ext, hc, sess>>

\* mutant: the file name is not tested
UploadValidateFile_any_name ==
    /\ req.pc = "validate_file"
    /\ IF req.is_new_workflow
       THEN IF ~req.file.present
            THEN req' = [req EXCEPT !.pc = "rejected",
                            !.response = "400 PDF file required for new workflow"]
            ELSE req' = [req EXCEPT !.pc = "read_file"]
       ELSE req' = [req EXCEPT !.pc = "create_job"]
    /\ UNCHANGED <<job_store, results_store, checkpoint, bg, run, rq, retry, idx, ext, hc, sess>>

\* lines 181-189: the file is looked at for a new workflow only
UploadValidateFile ==
    /\ req.pc = "validate_file"
    /\ IF req.is_new_workflow
       THEN IF ~req.file.present
            THEN req' = [req EXCEPT !.pc = "rejected",
                            !.response = "400 PDF file required for new workflow"]
            ELSE IF req.file.filename = <<>>
                    \/ ~EndsWith(req.file.filename, <<".", "p", "d", "f">>)
                 THEN req' = [req EXCEPT !.pc = "rejected",
                                 !.response = "400 Only PDF files allowed"]
                 ELSE req' = [req EXCEPT !.pc = "read_file"]
       ELSE req' = [req EXCEPT !.pc = "create_job"]
    /\ UNCHANGED <<job_store, results_store, checkpoint, bg, run, rq, retry, idx, ext, hc, sess>>

\* lines 191-197: file.read() returns the bytes or raises
UploadReadFile ==
    /\ req.pc = "read_file"
    /\ IF req.file.readable
       THEN req' = [req EXCEPT !.pc = "create_job", !.file_bytes = TRUE]
       ELSE req' = [req EXCEPT !.pc = "rejected", !.response = "500 Error reading file"]
    /\ UNCHANGED <<job_store, results_store, checkpoint, bg, run, rq, retry, idx, ext, hc, sess>>

\* lines 199-207
UploadCreateJob ==
    /\ req.pc = "create_job"
    /\ req.job_id \notin DOMAIN job_store
    /\ job_store' = job_store @@
            (req.job_id :> [status |-> "processing", workflow_id |-> "None",
                            progress |-> 0, error |-> "None"])
    /\ req' = [req EXCEPT !.pc = "add_task"]
    /\ UNCHANGED <<results_store, checkpoint, bg, run, rq, retry, idx, ext, hc, sess>>

\* lines 209-226: the background task gets file_bytes, sections_list and
\* is_new_workflow, and the response carries the job_id
UploadAddTask ==
    /\ req.pc = "add_task"
    /\ bg' = [bg EXCEPT ![req.job_id] =
                [IdleBg EXCEPT !.pc = "queued",
                               !.sections_list = req.sections_list,
                               !.is_new_workflow = req.is_new_workflow,
                               !.file_bytes = req.file_bytes]]
    /\ req' = [req EXCEPT !.pc = "responded", !.response = "200 processing",
                          !.with_file[req.job_id] =
                              /\ req.file.present
                              /\ req.file.readable
                              /\ EndsWith(req.file.filename, <<".", "p", "d", "f">>)]
    /\ UNCHANGED <<job_store, results_store, checkpoint, run, rq, retry, idx, ext, hc, sess>>

NextUpload ==
    \/ \E sections \in UploadForms, file \in UploadFiles : UploadReceive(sections, file)
    \/ UploadParse
    \/ UploadGetState
    \/ UploadValidateFile
    \/ UploadReadFile
    \/ UploadCreateJob
    \/ UploadAddTask
    \/ \E j \in JobIds : BgBegin(j)
    \/ \E j \in JobIds : BgSetup(j)
    \/ \E j \in JobIds : StreamStart(j)

SpecUpload == Init /\ [][NextUpload]_vars

\* the handler has accepted the request: it creates, or has created, the job
AcceptedPcs == {"create_job", "add_task", "responded"}

(***************************************************************************)
(* C24.  On every run, also one that continues an existing session, the    *)
(* document bytes supplied with the request are merged into the state      *)
(* graph.stream() is given, so read_pdf works on the new document.         *)
(***************************************************************************)
C24_NewDocumentMerged ==
    \A j \in DOMAIN job_store :
        (bg[j].pc = "stream_start" /\ req.with_file[j]) =>
            bg[j].graph_state.vals["pdf_bytes"] = j

(***************************************************************************)
(* C29.  POST /upload validates before it stores: a request whose sections *)
(* field is absent, unparsable or an empty list, a request for a new       *)
(* workflow without a file, and one for a new workflow whose file name     *)
(* does not end in .pdf are rejected with an error, and a rejected request *)
(* has added no job_store entry and no background task; the job record     *)
(* (processing, progress 0, no error, no workflow_id) exists only for an   *)
(* accepted request.                                                       *)
(***************************************************************************)
C29_RejectedLeavesStores ==
    LET sections_list == ParseSections(req.sections)
        bad_sections == sections_list = {}
        bad_file ==
            /\ req.is_new_workflow
            /\ \/ ~req.file.present
               \/ ~EndsWith(req.file.filename, <<".", "p", "d", "f">>)
        created == DOMAIN job_store \ (1..req.jobs_before)
    IN  /\ req.pc \in AcceptedPcs => ~bad_sections /\ ~bad_file
        /\ req.pc = "rejected" =>
              /\ created = {}
              /\ \A j \in JobIds \ (1..req.jobs_before) : bg[j].pc = "none"
              /\ req.response \in
                    {"400 At least one section must be selected for analysis",
                     "400 PDF file required for new workflow",
                     "400 Only PDF files allowed", "500 Error reading file"}
        /\ req.pc \notin {"add_task", "responded"} => created = {}
        /\ req.pc \in {"add_task", "responded"} => created = {req.job_id}
        /\ req.pc = "add_task" =>
              /\ job_store[req.job_id] =
                    [status |-> "processing", workflow_id |-> "None",
                     progress |-> 0, error |-> "None"]
              /\ bg[req.job_id].pc = "none"
        /\ \A j \in JobIds : bg[j].pc # "none" => j \in DOMAIN job_store

C29_Witness ==
    /\ req.pc = "rejected"
    /\ req.response = "400 Only PDF files allowed"
    /\ req.file.filename = <<"a", ".", "P", "D", "F">>
    /\ req.sections.list = {"ndps"}
    /\ DOMAIN job_store = {}

(***************************************************************************)
(* The state keys a node function reads from the state it is given and the *)
(* keys of the update it returns.                                          *)
(***************************************************************************)
\* ndps_legal_mapping and bns_legal_mapping: the key named after the node in
\* WorkflowState, read back by chargesheet.py and routes/utils.py
ReturnsOfMapping(n) ==
    IF n = "ndps_legal_mapping" THEN {"ndps_sections_mapped"} ELSE {"bns_sections_mapped"}

\* ndps_legal_mapping and bns_legal_mapping work on the FIR text, as the
\* bnss and bsa mappings do
ReadsOfMapping(n) == {"pdf_content_in_english"}

Returns(n) ==
    CASE n = "read_pdf" -> {"pdf_content_in_english"}
      [] n = "extract_fir_fact" -> {"fir_facts"}
      [] n \in {"ndps_legal_mapping", "bns_legal_mapping"} -> ReturnsOfMapping(n)
      [] n = "bnss_legal_mapping" -> {"bnss_sections_mapped"}
      [] n = "bsa_legal_mapping" -> {"bsa_sections_mapped"}
      [] n = "investigation_and_legal_timeline" -> {"investigation_and_legal_timeline"}
      [] n = "historical_cases" -> {"historical_cases"}
      [] n = "investigation_plan" -> {"investigation_plan"}
      [] n = "generate_evidence_checklist" -> {"evidence_checklist"}
      [] n = "generate_dos_and_donts" -> {"dos", "donts"}
      [] n = "generate_potential_prosecution_weaknesses" ->
            {"potential_prosecution_weaknesses"}
      [] n = "generate_defence_perspective_rebuttal" -> {"defence_perspective_rebuttal"}
      [] n = "generate_summary_for_the_court" -> {"summary_for_the_court"}
      [] n = "generate_chargesheet" -> {"chargesheet"}

Reads(n) ==
    CASE n = "read_pdf" -> {"pdf_bytes", "pdf_path"}
      [] n \in {"ndps_legal_mapping", "bns_legal_mapping"} -> ReadsOfMapping(n)
      [] n \in {"generate_evidence_checklist", "generate_dos_and_donts",
                "generate_potential_prosecution_weaknesses",
                "generate_defence_perspective_rebuttal"} ->
            {"pdf_content_in_english", "historical_cases"}
      [] n = "generate_summary_for_the_court" ->
            {"pdf_content_in_english", "fir_facts", "ndps_sections_mapped"}
      [] n = "generate_chargesheet" ->
            {"pdf_content_in_english", "fir_facts", "ndps_sections_mapped",
             "bns_sections_mapped", "bnss_sections_mapped", "bsa_sections_mapped",
             "historical_cases"}
      [] OTHER -> {"pdf_content_in_english"}

Docs == 1..MaxDocs

\* line 493: case_id = f"{case_number}_{year}", else f"doc_{doc_id}";
\* documents 1 and 2 of the model are two reports of one case
CaseIdOf(doc_id) == IF doc_id = 2 THEN 1 ELSE doc_id

RECURSIVE SeqOf(_)
SeqOf(S) ==
    IF S = {} THEN <<>>
    ELSE LET m == CHOOSE x \in S : \A y \in S : x <= y
         IN  <<m>> \o SeqOf(S \ {m})

\* lines 513-527: one result per document of unique_docs[:max_results]
search_indian_kanoon(found, max_results) ==
    LET unique_docs == SeqOf(found)
        n == Min(Len(unique_docs), IF max_results > 0 THEN max_results ELSE 0)
    IN  [k \in 1..n |-> [doc_id |-> unique_docs[k], case_id |-> CaseIdOf(unique_docs[k])]]

\* lines 647-651 and 693-697: append the results whose case_id is new
RECURSIVE AppendNew(_, _)
AppendNew(list, results) ==
    IF results = <<>> THEN list
    ELSE LET result == Head(results)
             seen == {list[k].case_id : k \in DOMAIN list}
         IN  AppendNew(IF result.case_id \notin seen THEN Append(list, result) ELSE list,
                       Tail(results))

\* mutant: every fallback query is tried
FallbackQueries_all(fir_substance) ==
    IF fir_substance
    THEN <<"S NDPS bail", "S NDPS", "NDPS S", "S bail", "NDPS bail">>
    ELSE <<>>

\* lines 658-676: the queries built from the substance (BAIL is always among
\* the keywords, line 622), and the [:3] of line 676
FallbackQueries(fir_substance) ==
    IF fir_substance
    THEN SubSeq(<<"S NDPS bail", "S NDPS", "NDPS S", "S bail", "NDPS bail">>, 1, 3)
    ELSE <<>>

InitCases ==
    /\ SessionInit
    /\ rq = IdleRq
    /\ retry = IdleRetry
    /\ idx = IdleIdx
    /\ sess = IdleSess
    /\ ext = IdleExt
    /\ req = IdleReq
    /\ hc = [IdleHc EXCEPT !.pc = "query"]

\* line 616: the LLM builds search_query, keywords and substance_name, or raises
HcBuildQuery(ok, fir_substance) ==
    /\ hc.pc = "query"
    /\ hc' = IF ok
             THEN [hc EXCEPT !.pc = "main", !.fir_substance = fir_substance]
             ELSE [hc EXCEPT !.pc = "raised", !.raised_by = "llm"]
    /\ UNCHANGED <<job_store, results_store, checkpoint, bg, run, rq, retry, idx, ext, req, sess>>

\* lines 632-676: the main search inside the try; an exception goes to the
\* except of line 734, which logs it
HcMainSearch(found, raises) ==
    /\ hc.pc = "main"
    /\ IF raises
       THEN hc' = [hc EXCEPT !.pc = "return"]
       ELSE LET list == AppendNew(<<>>, search_indian_kanoon(found, 6))
            IN  hc' = [hc EXCEPT !.historical_cases_list = list,
                                 !.processed_case_ids = {list[k].case_id : k \in DOMAIN list},
                                 !.main_cases = Len(list),
                                 !.queries = IF list = <<>>
                                             THEN FallbackQueries(hc.fir_substance)
                                             ELSE <<>>,
                                 !.i = 1,
                                 !.pc = IF list = <<>> THEN "fallback" ELSE "filter"]
    /\ UNCHANGED <<job_store, results_store, checkpoint, bg, run, rq, retry, idx, ext, req, sess>>

\* lines 676-704: one turn of the loop over fallback_queries[:3]
HcFallback(found, raises) ==
    /\ hc.pc = "fallback"
    /\ IF hc.i > Len(hc.queries) \/ Len(hc.historical_cases_list) >= 6
       THEN hc' = [hc EXCEPT !.pc = "filter"]
       ELSE IF raises
            THEN hc' = [hc EXCEPT !.i = hc.i + 1, !.searches = Append(hc.searches, -1)]
            ELSE LET list == AppendNew(hc.historical_cases_list,
                                 search_indian_kanoon(found,
                                        6 - Len(hc.historical_cases_list)))
                 IN  hc' = [hc EXCEPT
                        !.historical_cases_list = list,
                        !.processed_case_ids = {list[k].case_id : k \in DOMAIN list},
                        !.searches = Append(hc.searches,
                                            Len(list) - Len(hc.historical_cases_list)),
                        !.i = hc.i + 1,
                        !.pc = IF Len(list) > 0 THEN "filter" ELSE "fallback"]
    /\ UNCHANGED <<job_store, results_store, checkpoint, bg, run, rq, retry, idx, ext, req, sess>>

\* lines 706-732: the first six entries are copied
HcFilter ==
    /\ hc.pc = "filter"
    /\ hc' = [hc EXCEPT !.pc = "return",
                        !.historical_cases_list =
                            SubSeq(hc.historical_cases_list, 1,
                                   Min(Len(hc.historical_cases_list), 6))]
    /\ UNCHANGED <<job_store, results_store, checkpoint, bg, run, rq, retry, idx, ext, req, sess>>

\* lines 737-741
HcReturn ==
    /\ hc.pc = "return"
    /\ hc' = [hc EXCEPT !.pc = "done", !.returned = hc.historical_cases_list]
    /\ UNCHANGED <<job_store, results_store, checkpoint, bg, run, rq, retry, idx, ext, req, sess>>

NextCases ==
    \/ \E ok \in BOOLEAN, fir_substance \in BOOLEAN : HcBuildQuery(ok, fir_substance)
    \/ \E found \in SUBSET Docs, raises \in BOOLEAN : HcMainSearch(found, raises)
    \/ \E found \in SUBSET Docs, raises \in BOOLEAN : HcFallback(found, raises)
    \/ HcFilter
    \/ HcReturn

SpecCases == InitCases /\ [][NextCases]_vars

(***************************************************************************)
(* C30.  The historical_cases node returns at most 6 cases with pairwise   *)
(* distinct case_id; fallback queries are issued only when the main query  *)
(* produced 0 cases, at most 3 of them, and none after the first one that  *)
(* found a case; an exception of a search is absorbed, the node returning  *)
(* the cases gathered so far, so the node raises only for its LLM call.    *)
(***************************************************************************)
C30_CasesBounded ==
    /\ Len(hc.returned) <= 6
    /\ \A k \in DOMAIN hc.returned, l \in DOMAIN hc.returned :
            k # l => hc.returned[k].case_id # hc.returned[l].case_id
    /\ hc.pc = "done" =>
            {hc.returned[k] : k \in DOMAIN hc.returned}
                \subseteq {hc.historical_cases_list[k] : k \in DOMAIN hc.historical_cases_list}
    /\ Len(hc.searches) <= 3
    /\ hc.searches # <<>> => hc.main_cases = 0
    /\ \A k \in DOMAIN hc.searches : k < Len(hc.searches) => hc.searches[k] <= 0
    /\ hc.pc = "raised" => hc.raised_by = "llm"

C30_Witness ==
    /\ hc.pc = "done"
    /\ hc.searches = <<-1, 0, 5>>
    /\ Len(hc.returned) = 5

(***************************************************************************)
(* C26.  The shared state is written by the scheduler alone: a node        *)
(* function never assigns in the state dict it is called with, it only     *)
(* returns its update.                                                     *)
(***************************************************************************)
C26_NodesOnlyReturn ==
    \A j \in DOMAIN job_store : run[j].assigned = {}

(***************************************************************************)
(* SpecSession: one browser that logs in and uploads                       *)
(* (routes/session.py, upload_pdf lines 158-189).  request.session is the  *)
(* browser's session; a checkpoint and a stored result exist per           *)
(* workflow_id; uuid4() returns an id it has not returned before.          *)
(***************************************************************************)
uuid4(uuids) == Len(uuids) + 1

\* mutant: an existing session id is kept (what get_session_id does)
create_new_session_keeps_id(session_id, uuids) ==
    IF session_id # 0 THEN session_id ELSE uuid4(uuids)

\* session.py lines 30-45: session.clear(), then a new uuid4 as session_id
create_new_session(session_id, uuids) == uuid4(uuids)

\* session.py lines 12-27
get_session_id(session_id, uuids) ==
    IF session_id # 0 THEN session_id ELSE uuid4(uuids)

SessionChoices == {{"ndps"}, {"evidence"}}

KeysOf(sections_list) ==
    (IF "ndps" \in sections_list THEN {"ndps_sections_mapped"} ELSE {})
        \cup (IF "evidence" \in sections_list THEN {"evidence_checklist"} ELSE {})

InitSession ==
    /\ SessionInit
    /\ rq = IdleRq
    /\ retry = IdleRetry
    /\ idx = IdleIdx
    /\ ext = IdleExt
    /\ req = IdleReq
    /\ hc = IdleHc
    /\ sess = IdleSess

\* POST /login (session.py lines 48-63)
SessLogin ==
    /\ Len(sess.uuids) < MaxSessions
    /\ LET new_session_id == create_new_session(sess.session_id, sess.uuids)
       IN  sess' = [sess EXCEPT
                !.session_id = new_session_id,
                !.uuids = IF new_session_id = uuid4(sess.uuids)
                          THEN Append(sess.uuids, new_session_id) ELSE sess.uuids,
                !.last = "login", !.workflow_id = new_session_id,
                !.response = "200 New session created",
                !.is_new_workflow = FALSE, !.file = FALSE,
                !.logged_in = TRUE, !.previous = sess.session_id, !.uploads = 0]
    /\ UNCHANGED <<job_store, results_store, checkpoint, bg, run, rq, retry, idx, ext, req, hc>>

\* POST /upload with a non-empty section list (upload.py lines 158-218):
\* the session id is the workflow_id and the thread_id of the checkpoint
SessUpload(sections_list, file) ==
    /\ sess.task = NoTask
    /\ sess.session_id # 0 \/ Len(sess.uuids) < MaxSessions
    /\ LET workflow_id == get_session_id(sess.session_id, sess.uuids)
           is_new_workflow == sess.threads[workflow_id] = NoThread
           rejected == is_new_workflow /\ ~file
       IN  sess' = [sess EXCEPT
                !.session_id = workflow_id,
                !.uuids = IF sess.session_id = 0
                          THEN Append(sess.uuids, workflow_id) ELSE sess.uuids,
                !.last = "upload", !.workflow_id = workflow_id,
                !.is_new_workflow = is_new_workflow, !.file = file,
                !.response = IF rejected THEN "400 PDF file required for new workflow"
                             ELSE "200 processing",
                !.task = IF rejected THEN NoTask
                         ELSE [workflow_id |-> workflow_id,
                               is_new_workflow |-> is_new_workflow,
                               file_bytes |-> is_new_workflow /\ file,
                               sections_list |-> sections_list],
                !.uploads = IF sess.uploads = 0 THEN 1 ELSE 2]
    /\ UNCHANGED <<job_store, results_store, checkpoint, bg, run, rq, retry, idx, ext, req, hc>>

\* process_workflow_background for the task (upload.py lines 43-130): the
\* prior state of the thread is loaded for a continuing workflow, the input
\* is checkpointed under thread_id = workflow_id, and a run that completes
\* adds the outputs of its sections and stores the final state in
\* results_store[workflow_id]
SessBgRun(completes) ==
    /\ sess.task # NoTask
    /\ LET t == sess.task
           w == t.workflow_id
           loaded == IF t.is_new_workflow THEN NoThread ELSE sess.threads[w]
           graph_state == IF t.file_bytes THEN [loaded EXCEPT !["pdf_bytes"] = w]
                          ELSE loaded
           input == [k \in SessionKeys |->
                        IF graph_state[k] # 0 THEN graph_state[k] ELSE sess.threads[w][k]]
           final == [k \in SessionKeys |->
                        IF k \in KeysOf(t.sections_list) THEN w ELSE input[k]]
       IN  sess' = [sess EXCEPT
                !.task = NoTask,
                !.threads[w] = IF completes THEN final ELSE input,
                !.results[w] = IF completes THEN final ELSE @]
    /\ UNCHANGED <<job_store, results_store, checkpoint, bg, run, rq, retry, idx, ext, req, hc>>

NextSession ==
    \/ SessLogin
    \/ \E sections_list \in SessionChoices, file \in BOOLEAN : SessUpload(sections_list, file)
    \/ \E completes \in BOOLEAN : SessBgRun(completes)

SpecSession == InitSession /\ [][NextSession]_vars

(***************************************************************************)
(* C25.  Session isolation on login: POST /login installs a session id     *)
(* that differs from the previous one and from every id handed out before, *)
(* an upload is given the session id of the browser's session, the first   *)
(* upload after a login is a new workflow (a PDF is required, nothing is   *)
(* loaded), and the checkpoint and the stored result of a workflow_id hold *)
(* only values produced under that workflow_id.                            *)
(***************************************************************************)
C25_SessionIsolation ==
    /\ sess.last = "login" =>
            /\ sess.session_id # sess.previous
            /\ sess.threads[sess.session_id] = NoThread
            /\ sess.results[sess.session_id] = NoThread
    /\ \A k \in DOMAIN sess.uuids, l \in DOMAIN sess.uuids :
            k # l => sess.uuids[k] # sess.uuids[l]
    /\ sess.last # "None" => sess.workflow_id = sess.session_id
    /\ (sess.logged_in /\ sess.last = "upload" /\ sess.uploads = 1) =>
            /\ sess.is_new_workflow
            /\ sess.response = "200 processing" => sess.file
    /\ \A w \in SessionIds, k \in SessionKeys :
            /\ sess.threads[w][k] \in {0, w}
            /\ sess.results[w][k] \in {0, w}

C25_Witness ==
    /\ sess.logged_in
    /\ sess.previous = 1
    /\ sess.session_id = 2
    /\ sess.results[1]["ndps_sections_mapped"] = 1
    /\ sess.results[2] = [NoThread EXCEPT !["pdf_bytes"] = 2, !["evidence_checklist"] = 2]
====
